---- MODULE Spec2Model ----
(***************************************************************************)
(* Model of the low-frequency oscillator of src/lib.rs: the waveform       *)
(* shapers (phase, sine, triangle, saw, pulse) and the LFO struct with its *)
(* setters, reset, generate and Signal::next.                              *)
(*                                                                         *)
(* f64 values are modelled as exact rationals <<n, d>> in lowest terms     *)
(* with d > 0; <<0, 0>> stands for NaN (0.0 / 0.0).  Rounding error and    *)
(* the sign of zero are abstracted away.  sin is modelled by Bhaskara's    *)
(* rational approximation, which is exact at the multiples of a quarter    *)
(* turn and stays within [-1, 1].                                          *)
(***************************************************************************)
EXTENDS Integers, Sequences, FiniteSets, TLC

\* ------------------------------------------------------------ f64 values

Abs(n) == IF n < 0 THEN -n ELSE n

RECURSIVE GCD(_, _)
GCD(a, b) == IF b = 0 THEN a ELSE GCD(b, a % b)

\* The f64 n/d (d # 0) in lowest terms.
Q(n, d) ==
    LET g == GCD(Abs(n), Abs(d))
        s == IF d < 0 THEN -1 ELSE 1
    IN  <<(s * n) \div g, (s * d) \div g>>

NaN == <<0, 0>>
IsNaN(x) == x[2] = 0
I(n) == <<n, 1>>
Zero == I(0)
One == I(1)
Half == <<1, 2>>

QAdd(x, y) == IF IsNaN(x) \/ IsNaN(y) THEN NaN
              ELSE Q(x[1] * y[2] + y[1] * x[2], x[2] * y[2])
QNeg(x) == <<-x[1], x[2]>>
QSub(x, y) == QAdd(x, QNeg(y))
QMul(x, y) == IF IsNaN(x) \/ IsNaN(y) THEN NaN
              ELSE Q(x[1] * y[1], x[2] * y[2])
\* x / y; only 0.0 / 0.0 (NaN) arises with a zero divisor, since time_step
\* stays 0.0 while sample_rate is 0.0.
QDiv(x, y) == IF IsNaN(x) \/ IsNaN(y) \/ y[1] = 0 THEN NaN
              ELSE Q(x[1] * y[2], x[2] * y[1])
\* Comparisons with NaN are false.
QLt(x, y) == ~IsNaN(x) /\ ~IsNaN(y) /\ x[1] * y[2] < y[1] * x[2]
QLe(x, y) == ~IsNaN(x) /\ ~IsNaN(y) /\ x[1] * y[2] <= y[1] * x[2]
QAbs(x) == <<Abs(x[1]), x[2]>>

\* f64::trunc as an integer: rounds toward zero.
Trunc(x) == IF x[1] >= 0 THEN x[1] \div x[2] ELSE -((-x[1]) \div x[2])

\* f64::fract: self - self.trunc(), which keeps the sign of self.
Fract(x) == IF IsNaN(x) THEN NaN ELSE QSub(x, I(Trunc(x)))

\* `x as usize`: truncates, and saturates negative values and NaN to 0.
AsUsize(x) == IF IsNaN(x) \/ x[1] < 0 THEN 0 ELSE Trunc(x)

\* ------------------------------------------------------------ shapers

phase(freq, time, theta) == Fract(QAdd(QMul(freq, time), theta))

\* sin(pi * u) for u in [0, 1], by Bhaskara's approximation.
SinHalfTurn(u) ==
    LET v == QMul(u, QSub(One, u))
    IN  QDiv(QMul(I(16), v), QSub(I(5), QMul(I(4), v)))

\* sin(TAU * ph) for ph in (-1, 1); sin is odd.
sine(ph) ==
    LET a == QAbs(ph)
        s == IF QLe(a, Half) THEN SinHalfTurn(QMul(I(2), a))
             ELSE QNeg(SinHalfTurn(QSub(QMul(I(2), a), One)))
    IN  IF IsNaN(ph) THEN NaN ELSE IF ph[1] < 0 THEN QNeg(s) ELSE s

triangle(ph) ==
    IF QLt(ph, Half) THEN QSub(QMul(I(4), ph), One)
    ELSE QSub(I(3), QMul(I(4), ph))

saw(ph, ramp_up) ==
    IF ramp_up THEN QSub(QMul(I(2), ph), One)
    ELSE QSub(One, QMul(I(2), ph))

\* pulse with the comparison made inclusive.
pulse_inclusive(ph, duty_ratio) == IF QLe(ph, duty_ratio) THEN One ELSE QNeg(One)

pulse(ph, duty_ratio) == IF QLt(ph, duty_ratio) THEN One ELSE QNeg(One)

\* ------------------------------------------------------------ the LFO

Sine == <<"Sine">>
Triangle == <<"Triangle">>
SawUp == <<"SawUp">>
SawDn == <<"SawDn">>
Pulse(duty_ratio) == <<"Pulse", duty_ratio>>

new(w, f, sr) ==
    [waveform |-> w, freq |-> f, theta |-> Zero, gain |-> One,
     time_step |-> 0, sample_rate |-> sr]

\* set_waveform that also restarts the cycle.
set_waveform_restarts(l, w) == [l EXCEPT !.waveform = w, !.time_step = 0]

set_waveform(l, w) == [l EXCEPT !.waveform = w]
set_freq(l, f) == [l EXCEPT !.freq = f]
set_theta(l, t) == [l EXCEPT !.theta = t]
set_gain(l, g) == [l EXCEPT !.gain = g]
\* reset that leaves the time index where it is.
reset_keeps_time(l) == l

reset(l) == [l EXCEPT !.time_step = 0]

\* The match of generate over the waveform.
Shape(w, ph) ==
    CASE w[1] = "Sine" -> sine(ph)
      [] w[1] = "Triangle" -> triangle(ph)
      [] w[1] = "SawUp" -> saw(ph, TRUE)
      [] w[1] = "SawDn" -> saw(ph, FALSE)
      [] w[1] = "Pulse" -> pulse(ph, w[2])

\* The time index advanced without the remainder.
Advance_no_wrap(ts, sr) == ts + 1

\* The time index after one step: (time_step + 1.0) as usize
\* % sample_rate as usize.  The divisor is nonzero where this is used.
Advance(ts, sr) == (ts + 1) % AsUsize(sr)

\* generate: the phase is computed first; the remainder by a zero divisor
\* panics before time_step is assigned and before the waveform is matched.
generate(l) ==
    LET ph == phase(l.freq, QDiv(I(l.time_step), l.sample_rate), l.theta)
    IN  IF AsUsize(l.sample_rate) = 0
        THEN [lfo |-> l, phase |-> ph, raw |-> NaN, panic |-> TRUE]
        ELSE [lfo |-> [l EXCEPT !.time_step = Advance(l.time_step, l.sample_rate)],
              phase |-> ph, raw |-> Shape(l.waveform, ph), panic |-> FALSE]

\* Signal::next: amp * (generate() + 1.0) with amp = 0.5 * gain.
Scale(gain, a) == QMul(QMul(Half, gain), QAdd(a, One))

next(l) ==
    LET g == generate(l)
    IN  [lfo |-> g.lfo, phase |-> g.phase, raw |-> g.raw, panic |-> g.panic,
         ret |-> IF g.panic THEN NaN ELSE Scale(l.gain, g.raw)]

\* ------------------------------------------------------------ the state

VARIABLES
    lfo,         \* the LFO struct
    op,          \* the operation called last
    ret,         \* the sample returned by the last call, when it was next
    raw,         \* what generate returned inside that call
    last_phase,  \* the local `phase` of generate in that call
    panicked,    \* the last call panicked (remainder by zero)
    n,           \* calls of next that returned since new or reset
    fresh,       \* <<l>>: an LFO newly constructed when lfo was last reset
    fresh_ret,   \* the sample `fresh` returned in the last call of next
    raws         \* the raw samples since construction (periodicity runs)

vars == <<lfo, op, ret, raw, last_phase, panicked, n, fresh, fresh_ret, raws>>

\* Bounds of the model.
MaxSteps == 6
MaxSamples == 12
MaxPulseSamples == 1100

DutySet == {<<-1, 2>>, Zero, <<1, 4>>, One, <<3, 2>>}
WaveformSet == {Sine, Triangle, SawUp, SawDn} \cup {Pulse(d) : d \in DutySet}
FreqSet == {I(-1), Zero, One, <<3, 2>>}
ThetaSet == {<<-3, 4>>, Zero, <<1, 4>>}
GainSet == {I(-1), Half, One}
SampleRateSet == {I(-1), Zero, Half, One, <<5, 2>>, I(3), I(4)}

\* The state after `let mut lfo = LFO::new(w, f, sr)`.
Constructed(w, f, sr) ==
    /\ lfo = new(w, f, sr)
    /\ op = "new"
    /\ ret = NaN
    /\ raw = NaN
    /\ last_phase = NaN
    /\ panicked = FALSE
    /\ n = 0
    /\ fresh = <<>>
    /\ fresh_ret = NaN
    /\ raws = <<>>

Init == \E w \in WaveformSet, f \in FreqSet, sr \in SampleRateSet :
            Constructed(w, f, sr)

\* A call that returns () and leaves the time index alone.
Setter(name, l, fr) ==
    /\ ~panicked
    /\ lfo' = l
    /\ fresh' = fr
    /\ op' = name
    /\ ret' = NaN
    /\ raw' = NaN
    /\ last_phase' = NaN
    /\ fresh_ret' = NaN
    /\ UNCHANGED <<panicked, n, raws>>

SetWaveform ==
    \E w \in WaveformSet :
        Setter("set_waveform", set_waveform(lfo, w),
               [i \in DOMAIN fresh |-> set_waveform(fresh[i], w)])

SetFreq ==
    \E f \in FreqSet :
        Setter("set_freq", set_freq(lfo, f),
               [i \in DOMAIN fresh |-> set_freq(fresh[i], f)])

SetTheta ==
    \E t \in ThetaSet :
        Setter("set_theta", set_theta(lfo, t),
               [i \in DOMAIN fresh |-> set_theta(fresh[i], t)])

SetGain ==
    \E g \in GainSet :
        Setter("set_gain", set_gain(lfo, g),
               [i \in DOMAIN fresh |-> set_gain(fresh[i], g)])

\* reset; beside it a new LFO is constructed and given the same waveform,
\* frequency, sample rate, phase offset and gain.
Reset ==
    /\ ~panicked
    /\ lfo' = reset(lfo)
    /\ fresh' = <<set_gain(set_theta(new(lfo.waveform, lfo.freq, lfo.sample_rate),
                                     lfo.theta), lfo.gain)>>
    /\ op' = "reset"
    /\ n' = 0
    /\ ret' = NaN
    /\ raw' = NaN
    /\ last_phase' = NaN
    /\ fresh_ret' = NaN
    /\ UNCHANGED <<panicked, raws>>

\* One call of Signal::next on lfo (and on `fresh`, when there is one).
Sample(keep) ==
    LET r == next(lfo)
    IN  /\ ~panicked
        /\ lfo' = r.lfo
        /\ op' = "next"
        /\ ret' = r.ret
        /\ raw' = r.raw
        /\ last_phase' = r.phase
        /\ panicked' = r.panic
        /\ n' = IF r.panic THEN n ELSE n + 1
        /\ fresh' = [i \in DOMAIN fresh |-> next(fresh[i]).lfo]
        /\ fresh_ret' = IF fresh = <<>> THEN NaN ELSE next(fresh[1]).ret
        /\ raws' = IF keep /\ ~r.panic THEN Append(raws, r.raw) ELSE raws

NextSample == n < MaxSteps /\ Sample(FALSE)

Next == SetWaveform \/ SetFreq \/ SetTheta \/ SetGain \/ Reset \/ NextSample

Spec == Init /\ [][Next]_vars

\* ------------------------------------------------- periodicity runs
\* A fixed frequency f > 0 and sample rate r with r / f a whole number of
\* samples; nothing but next is called, and the raw samples are kept.

PeriodCases ==
    {<<One, I(4)>>, <<I(2), I(4)>>, <<Half, I(2)>>, <<<<3, 2>>, I(6)>>,
     <<<<5, 2>>, I(5)>>, <<Half, <<7, 2>>>>}

InitPeriod == \E w \in WaveformSet, c \in PeriodCases : Constructed(w, c[1], c[2])

PeriodSample == Len(raws) < MaxSamples /\ Sample(TRUE)

NextPeriod == PeriodSample

SpecPeriod == InitPeriod /\ [][NextPeriod]_vars

\* f64::round of a positive value: half away from zero.
Round(x) == (2 * x[1] + x[2]) \div (2 * x[2])

\* ------------------------------------------------- the pulse scenario
\* LFO::new(Waveform::Pulse(0.5), 2.0, 1000.0), set_gain(0.5), then samples.

InitPulse == Constructed(Pulse(Half), I(2), I(1000))

PulseSetGain == op = "new" /\ Setter("set_gain", set_gain(lfo, Half), fresh)

PulseSample == op # "new" /\ n < MaxPulseSamples /\ Sample(FALSE)

NextPulse == PulseSetGain \/ PulseSample

SpecPulse == InitPulse /\ [][NextPulse]_vars

\* ------------------------------------------------------------ properties

IsIntegral(x) == x[2] = 1

\* C1: after any call of next the time index satisfies
\* 0 <= time_step < sample_rate.
TimeStepInRange ==
    op = "next" => 0 <= lfo.time_step /\ QLt(I(lfo.time_step), lfo.sample_rate)

\* For a sample rate of at least 1 every call of next returns, advances the
\* time index by one modulo the truncated sample rate and leaves it within
\* [0, sample_rate).
StepAdvances ==
    [][op' = "next" /\ QLe(One, lfo.sample_rate) =>
         /\ ~panicked'
         /\ lfo'.time_step = (lfo.time_step + 1) % Trunc(lfo.sample_rate)
         /\ 0 <= lfo'.time_step
         /\ QLt(I(lfo'.time_step), lfo'.sample_rate)]_vars

\* C2: no operation panics, whatever the inputs.
NoPanic == ~panicked

\* C3: every sample next returns lies within [-|gain|, |gain|].
OutputWithinGain ==
    op = "next" /\ ~panicked => QLe(QAbs(ret), QAbs(lfo.gain))

\* C4: the phase generate hands to the shaper lies in [0, 1).
PhaseInUnitInterval ==
    op = "next" /\ ~panicked => QLe(Zero, last_phase) /\ QLt(last_phase, One)

\* C5: for an integral sample rate r >= 1, r calls of next from time index 0
\* bring the time index back to 0, and fewer (but at least one) do not,
\* whatever setters are called in between.
FullSecondReturnsToZero ==
    IsIntegral(lfo.sample_rate) /\ QLe(One, lfo.sample_rate) =>
        LET r == Trunc(lfo.sample_rate)
        IN  /\ n = r => lfo.time_step = 0
            /\ 0 < n /\ n < r => lfo.time_step # 0

FullSecondWitness ==
    /\ op = "next"
    /\ lfo.sample_rate = I(4)
    /\ n = 4
    /\ lfo.time_step = 0

\* C6 as stated: in every 500-sample period the first 250 samples are 0.5
\* and the remaining 250 are -0.5.
PulseScenarioBipolar ==
    op = "next" => ret = IF (n - 1) % 500 < 250 THEN Half ELSE QNeg(Half)

\* C6 amended: in every 500-sample period the first 250 samples are 0.5 and
\* the remaining 250 are 0.0.
PulseScenarioUnipolar ==
    op = "next" => ret = IF (n - 1) % 500 < 250 THEN Half ELSE Zero

PulseScenarioWitness ==
    /\ op = "next"
    /\ n = 751
    /\ lfo.time_step = 751
    /\ ret = Zero

\* C7: with f evenly dividing r and only next called, the raw samples are
\* periodic with period round(r / f).
RawPeriodic ==
    LET P == Round(QDiv(lfo.sample_rate, lfo.freq))
    IN  \A i \in 1..Len(raws) :
            i + P <= Len(raws) => raws[i] = raws[i + P]

\* C8: set_waveform changes the waveform only, so the next sample is the new
\* waveform's shape at the phase the old waveform would have been given.
SetWaveformFrame ==
    [][op' = "set_waveform" =>
         /\ lfo' = [lfo EXCEPT !.waveform = lfo'.waveform]
         /\ generate(lfo').phase = generate(lfo).phase
         /\ ~generate(lfo).panic =>
                generate(lfo').raw = Shape(lfo'.waveform, generate(lfo).phase)]_vars

SetWaveformWitness ==
    /\ op = "set_waveform"
    /\ lfo.time_step = 2
    /\ n = 2
    /\ lfo.waveform = Triangle

\* C9: a pulse with duty ratio <= 0 is the constant -1, and with duty
\* ratio >= 1 the constant +1.
PulseDegenerate ==
    op = "next" /\ ~panicked /\ lfo.waveform[1] = "Pulse" =>
        /\ QLe(lfo.waveform[2], Zero) => raw = QNeg(One)
        /\ QLe(One, lfo.waveform[2]) => raw = One

\* C10: reset zeroes the time index and changes nothing else, and from then
\* on the samples are those of an LFO newly constructed with the same
\* waveform, frequency, sample rate, phase offset and gain.
ResetRestarts ==
    [][/\ op' = "reset" => lfo' = [lfo EXCEPT !.time_step = 0]
       /\ fresh' # <<>> =>
            /\ fresh'[1] = lfo'
            /\ op' = "next" => ret' = fresh_ret']_vars

ResetWitness ==
    /\ op = "next"
    /\ ~panicked
    /\ fresh # <<>>
    /\ n = 2
    /\ lfo.time_step = 2
    /\ ret = fresh_ret
    /\ ret # Zero

====
